---- MODULE Spec2Model ----
(***************************************************************************)
(* State-machine model of the pipeline dashboard in src/lib/index.ts:      *)
(* the periodic fetchPipelines cycle (list -> filter -> rate-limited       *)
(* detail fetches joined by Promise.all -> table.set("stats") ->           *)
(* table.setData), and the pure helpers it uses (colorizedStatus, the      *)
(* /^integration/i filter, the row mapping).                               *)
(*                                                                         *)
(* Strings are sequences of one-character strings, so that padEnd, slice   *)
(* and the case-insensitive prefix match are computed as the code computes *)
(* them.  An optional value (a ?-field of the AWS types) is None == <<>>   *)
(* or Some(x) == <<x>>.                                                    *)
(*                                                                         *)
(* One step of the model is one macrotask of the Node event loop (a timer  *)
(* firing, a network response, a limiter callback) together with the       *)
(* promise continuations (microtasks) it triggers.                         *)
(***************************************************************************)
EXTENDS Naturals, Sequences, FiniteSets

\* ------------------------------------------------------------------ bounds

\* Number of fetchPipelines invocations explored (the one at startup plus ticks).
MaxCycles == 2
\* Longest stageStates list of a detail response in SpecAgg.
MaxStages == 2
\* Longest actionStates list of a stage in SpecAgg.
MaxActions == 1

\* --------------------------------------------------------------- constants

\* "...".padEnd(10, " ") in colorizedStatus
PadWidth == 10
\* pipelineName?.slice(0, 30)
NameWidth == 30
\* columnWidth: [30, 10], the width of the name column
ColumnWidth == 30

\* ----------------------------------------------------------------- strings

None == <<>>
Some(x) == <<x>>
IsSome(o) == Len(o) = 1
Get(o) == o[1]

UpperCase == <<"A","B","C","D","E","F","G","H","I","J","K","L","M",
               "N","O","P","Q","R","S","T","U","V","W","X","Y","Z">>
LowerCase == <<"a","b","c","d","e","f","g","h","i","j","k","l","m",
               "n","o","p","q","r","s","t","u","v","w","x","y","z">>

\* Case folding of one character, as the i flag of the regular expression does.
ToLower(ch) ==
  IF \E k \in 1..26 : UpperCase[k] = ch
  THEN LowerCase[CHOOSE k \in 1..26 : UpperCase[k] = ch]
  ELSE ch

\* String.prototype.padEnd(n, " ")
PadEnd(s, n) ==
  IF Len(s) >= n THEN s ELSE s \o [k \in 1..(n - Len(s)) |-> " "]

\* Mutant: the string is not cut.
Slice0_Whole(s, n) == s

\* String.prototype.slice(0, n)
Slice0(s, n) == SubSeq(s, 1, IF Len(s) < n THEN Len(s) ELSE n)

Failed == <<"F","a","i","l","e","d">>
Succeeded == <<"S","u","c","c","e","e","d","e","d">>
InProgress == <<"I","n","P","r","o","g","r","e","s","s">>

\* ------------------------------------------------------- colorizedStatus

\* A JavaScript Set keeps insertion order: it is a sequence without repeats.
SetHas(set, x) == \E k \in 1..Len(set) : set[k] = x
SetAdd(set, x) == IF SetHas(set, x) THEN set ELSE Append(set, x)
SetDelete(set, x) == SelectSeq(set, LAMBDA y : y # x)

RECURSIVE NewSet(_)
NewSet(seq) ==
  IF seq = <<>> THEN <<>>
  ELSE SetAdd(NewSet(SubSeq(seq, 1, Len(seq) - 1)), seq[Len(seq)])

\* chalk.bgRed / bgGreen / bgBlue of a padded text
Chalk(bg, text) == [bg |-> bg, text |-> text]

\* Mutant: the Succeeded/empty test comes before the Failed test.
colorizedStatus_SucceededFirst(statuses) ==
  LET rest == SetDelete(SetDelete(statuses, Succeeded), Failed) IN
  IF Len(rest) = 0 /\ ~SetHas(statuses, Failed)
  THEN Chalk("green", PadEnd(Succeeded, PadWidth))
  ELSE IF Len(rest) = 0
  THEN Chalk("red", PadEnd(Failed, PadWidth))
  ELSE Chalk("blue", PadEnd(rest[1], PadWidth))

\* Mutant: the remaining-status branch reports Succeeded.
colorizedStatus_RestSucceeded(statuses) ==
  IF SetHas(statuses, Failed)
  THEN Chalk("red", PadEnd(Failed, PadWidth))
  ELSE Chalk("green", PadEnd(Succeeded, PadWidth))

\* Mutant: Succeeded is not deleted before the size test.
colorizedStatus_NoDelete(statuses) ==
  IF SetHas(statuses, Failed)
  THEN Chalk("red", PadEnd(Failed, PadWidth))
  ELSE IF Len(statuses) = 0
  THEN Chalk("green", PadEnd(Succeeded, PadWidth))
  ELSE Chalk("blue", PadEnd(statuses[1], PadWidth))

colorizedStatus(statuses) ==
  IF SetHas(statuses, Failed)
  THEN Chalk("red", PadEnd(Failed, PadWidth))
  ELSE LET rest == SetDelete(statuses, Succeeded) IN
       IF Len(rest) = 0
       THEN Chalk("green", PadEnd(Succeeded, PadWidth))
       ELSE Chalk("blue", PadEnd(rest[1], PadWidth))

\* ------------------------------------------------------------ remote data

Digits == <<"1","2","3","4","5","6","7","8","9">>
StageNameOf(k) == <<"s","t","a","g","e">> \o <<Digits[k]>>
ActionNameOf(k) == <<"a","c","t">> \o <<Digits[k]>>

\* Sequences over S of length at most n.
SeqsUpTo(S, n) == UNION {[1..k -> S] : k \in 0..n}

\* A Date, and humanizeTime of it: formatDistance(time, new Date(), ...) is an
\* external pure function of the time; it is kept as a tagged value.
Stamp == <<"2","0","2","0">>
humanizeTime(time) == [ago |-> time]

\* action.latestExecution: absent (the action never ran) or {status, lastStatusChange}.
ActionExecution(status) == [status |-> status, lastStatusChange |-> Stamp]
ActionExecutions ==
  {None, Some(ActionExecution(Succeeded)), Some(ActionExecution(Failed))}
\* stage.latestExecution: absent or {status}.
StageExecutions == {None, Some([status |-> Succeeded]),
                    Some([status |-> Failed]), Some([status |-> InProgress])}

\* ActionState {actionName, latestExecution?, revisionUrl?, entityUrl?}
ActionStateWith(k, exec, revisionUrl, entityUrl) ==
  [actionName |-> ActionNameOf(k), latestExecution |-> exec,
   revisionUrl |-> revisionUrl, entityUrl |-> entityUrl]
ActionState(k, exec) == ActionStateWith(k, exec, None, None)
StageState(k, exec, actions) ==
  [stageName |-> StageNameOf(k), latestExecution |-> exec,
   actionStates |-> Some(actions)]

\* GetPipelineStateOutput for pipeline `name`; stageStates is optional.
PipelineState(name, stageStates) ==
  [pipelineName |-> Some(name), stageStates |-> stageStates]

ActionStateLists ==
  {[k \in DOMAIN f |-> ActionState(k, f[k])] : f \in SeqsUpTo(ActionExecutions, MaxActions)}
StageBodies == StageExecutions \X ActionStateLists
StageStateLists ==
  {[k \in DOMAIN f |-> StageState(k, f[k][1], f[k][2])] : f \in SeqsUpTo(StageBodies, MaxStages)}

\* Every detail response within the bounds, for pipeline `name`.
AllPipelineStates(name) ==
  {PipelineState(name, None)} \cup {PipelineState(name, Some(ss)) : ss \in StageStateLists}

\* The detail responses the refresh loop is run against: the Build/Deploy
\* scenario, a retried stage (the stage runs again while its action still shows
\* the failure of the previous execution), a response without stageStates.
BuildDeploy ==
  <<StageState(1, Some([status |-> Succeeded]), <<ActionState(1, Some(ActionExecution(Succeeded)))>>),
    StageState(2, Some([status |-> Failed]), <<ActionState(1, Some(ActionExecution(Failed)))>>)>>
Retried ==
  <<StageState(1, Some([status |-> InProgress]), <<ActionState(1, Some(ActionExecution(Failed)))>>)>>
DetailResponses(name) ==
  {PipelineState(name, Some(BuildDeploy)), PipelineState(name, Some(Retried)),
   PipelineState(name, None)}

NameA == <<"i","n","t","e","g","r","a","t","i","o","n","-","a">>
NameB == <<"I","n","t","e","g","r","a","t","i","o","n","-","B">>
NameC == <<"o","t","h","e","r","-","c">>
NameX == <<"x","i","n","t","e","g","r","a","t","i","o","n">>
NameShort == <<"i","n","t","e","g">>
NameUpper == <<"I","N","T","E","G","R","A","T","I","O","N">>

\* PipelineSummary {name?}
Summary(name) == [name |-> Some(name)]
Unnamed == [name |-> None]

\* ListPipelinesOutput.pipelines (optional) of the list responses explored.
ExampleList == <<Summary(NameA), Summary(NameB), Summary(NameC)>>
ListResponses ==
  {Some(ExampleList),
   Some(<<Summary(NameX), Unnamed, Summary(NameShort)>>),
   Some(<<Summary(NameUpper)>>),
   None}

\* ------------------------------------------------------------- the filter

Pattern == <<"i","n","t","e","g","r","a","t","i","o","n">>

\* Mutant: the match is case-sensitive (the i flag is missing).
MatchesPattern_CaseSensitive(name) ==
  /\ Len(name) >= Len(Pattern)
  /\ \A k \in 1..Len(Pattern) : name[k] = Pattern[k]

\* name.match(/^integration/i)
MatchesPattern(name) ==
  /\ Len(name) >= Len(Pattern)
  /\ \A k \in 1..Len(Pattern) : ToLower(name[k]) = Pattern[k]

\* output.pipelines?.filter(pp => pp.name?.match(/^integration/i) ? true : false)
Watched(pipelines) ==
  IF IsSome(pipelines)
  THEN Some(SelectSeq(Get(pipelines),
                      LAMBDA pp : IsSome(pp.name) /\ MatchesPattern(Get(pp.name))))
  ELSE None

\* -------------------------------------------------------- rows of the table

\* mappedStats: {pipelineName, stages?: [{stageName, status?, actions?}]}.
MappedAction(action) ==
  [actionName |-> action.actionName,
   status |-> IF IsSome(action.latestExecution)
              THEN Some(Get(action.latestExecution).status) ELSE None,
   lastRun |-> IF IsSome(action.latestExecution)
               THEN Some(humanizeTime(Get(action.latestExecution).lastStatusChange))
               ELSE None,
   source |-> action.revisionUrl]
MappedStage(stage) ==
  [stageName |-> stage.stageName,
   status |-> IF IsSome(stage.latestExecution)
              THEN Some(Get(stage.latestExecution).status) ELSE None,
   actions |-> IF IsSome(stage.actionStates)
               THEN Some([k \in DOMAIN Get(stage.actionStates) |->
                            MappedAction(Get(stage.actionStates)[k])])
               ELSE None]
MappedStats(pipeline) ==
  [pipelineName |-> pipeline.pipelineName,
   stages |-> IF IsSome(pipeline.stageStates)
              THEN Some([k \in DOMAIN Get(pipeline.stageStates) |->
                           MappedStage(Get(pipeline.stageStates)[k])])
              ELSE None]

\* s.status ?? ""
StatusOrEmpty(s) == IF IsSome(s.status) THEN Get(s.status) ELSE <<>>

\* One row of stats: [] without stages, else [name.slice(0, 30), label].
Row(mapped) ==
  IF ~IsSome(mapped.stages) THEN <<>>
  ELSE <<IF IsSome(mapped.pipelineName)
         THEN Slice0(Get(mapped.pipelineName), NameWidth) ELSE <<>>,
         colorizedStatus(NewSet([k \in DOMAIN Get(mapped.stages) |->
                                   StatusOrEmpty(Get(mapped.stages)[k])]))>>

\* ------------------------------------------------------------------ state

VARIABLES
  started,      \* number of fetchPipelines() invocations so far (cycles 1..started)
  ticks,        \* number of times the setInterval timer has fired
  phase,        \* per cycle: "idle" | "listing" | "fetching" | "done" | "failed"
  listed,       \* per cycle: the list response received (None before it arrives)
  fetch,        \* per cycle: one [name, st] per watched pipeline; st is
                \*   "waiting" (removeToken pending), "fetching" (getPipelineState
                \*   pending), "ok", "failed" or "error" (the limiter's err)
  results,      \* per cycle: the detail responses collected by Promise.all
  stats,        \* table.get("stats"): None until the first table.set
  tableData,    \* the data rows last given to table.setData
  alive,        \* FALSE once the process has been terminated
  granted,      \* per cycle: the fetches whose removeToken promise has resolved
  pubCycle,     \* the cycle that wrote stats last (0: none)
  rowsCycle,    \* the cycle that wrote tableData last (0: none)
  publishedBy,  \* the cycles that have written stats and tableData
  detail,       \* the items of detailTable
  lookedUp,     \* the index in stats the last select handler found (0: none)
  threw         \* TRUE when the last select handler raised an exception

\* What the select handler writes.
ui == <<detail, lookedUp, threw>>

vars == <<started, ticks, phase, listed, fetch, results, stats, tableData,
          alive, granted, pubCycle, rowsCycle, publishedBy, detail, lookedUp,
          threw>>

Cycles == 1..MaxCycles

\* Cycles between their listPipelines call and their publication or failure.
InFlight == {c \in Cycles : phase[c] \in {"listing", "fetching"}}

\* ------------------------------------------------------------- operations

\* Mutant: the join resolves as soon as one detail fetch has fulfilled.
PromiseAllFulfilled_Any(f) == \E k \in DOMAIN f : f[k].st = "ok"

\* Promise.all(...) fulfils when every removeToken().then(getPipelineDetails) has.
PromiseAllFulfilled(f) == \A k \in DOMAIN f : f[k].st = "ok"

\* Mutant: the set is stored but the table is not redrawn.
Publish_StatsOnly(c, pipelineStats) ==
  /\ stats' = Some(pipelineStats)
  /\ phase' = [phase EXCEPT ![c] = "done"]
  /\ pubCycle' = c
  /\ publishedBy' = publishedBy \cup {c}
  /\ UNCHANGED <<tableData, rowsCycle>>

\* The two last .then callbacks: table.set("stats", pipelineStats), the mapping
\* to rows, table.setData({headers, data: stats}).
Publish(c, pipelineStats) ==
  /\ stats' = Some(pipelineStats)
  /\ tableData' = [k \in DOMAIN pipelineStats |-> Row(MappedStats(pipelineStats[k]))]
  /\ phase' = [phase EXCEPT ![c] = "done"]
  /\ pubCycle' = c
  /\ rowsCycle' = c
  /\ publishedBy' = publishedBy \cup {c}

NoPublish == UNCHANGED <<stats, tableData, pubCycle, rowsCycle, publishedBy>>

\* Mutant: a rejected chain blanks the dashboard.
Reject_Blank(c) ==
  /\ phase' = [phase EXCEPT ![c] = "failed"]
  /\ stats' = Some(<<>>)
  /\ tableData' = <<>>
  /\ UNCHANGED <<pubCycle, rowsCycle, publishedBy>>
  /\ alive' \in BOOLEAN

\* Mutant: a rejection is swallowed and the chain stays pending.
Reject_Pending(c) ==
  /\ UNCHANGED phase
  /\ NoPublish
  /\ alive' \in BOOLEAN

\* The promise chain of cycle c rejects.  No .catch is attached: the .then
\* callbacks are skipped, and the unhandled rejection is left to the runtime,
\* which either reports it and goes on or terminates the process.
Reject(c) ==
  /\ phase' = [phase EXCEPT ![c] = "failed"]
  /\ NoPublish
  /\ alive' \in BOOLEAN

\* setInterval(fetchPipelines, 60 * 1000) fires: fetchPipelines() issues
\* pipeline.listPipelines() and returns.  No call of a cycle has a timeout, so a
\* tick may come while any call of an earlier cycle is still pending.
Tick ==
  /\ alive
  /\ UNCHANGED ui
  /\ started < MaxCycles
  /\ ticks' = ticks + 1
  /\ started' = started + 1
  /\ phase' = [phase EXCEPT ![started + 1] = "listing"]
  /\ UNCHANGED <<listed, fetch, results, stats, tableData, alive, granted,
                 pubCycle, rowsCycle, publishedBy>>

\* Mutant: a token is requested and a detail fetch made for every listed pipeline.
Targets_All(out) ==
  IF IsSome(out)
  THEN Some(SelectSeq(Get(out), LAMBDA pp : IsSome(pp.name)))
  ELSE None

\* The pipelines the first .then callback maps over.
Targets(out) == Watched(out)

\* Mutant: getPipelineDetails is called at once, without removeToken.
StartFetch_NoToken(name) == [name |-> name, st |-> "fetching"]

\* watched.map(pp => removeToken().then(...)): removeToken() has been called.
StartFetch(name) == [name |-> name, st |-> "waiting"]

\* The list call of cycle c fulfils with `out`: the first .then callback filters
\* and starts one removeToken per watched pipeline; with nothing to wait for the
\* chain goes on to publish at once.
ListOk(c, out) ==
  /\ alive
  /\ UNCHANGED ui
  /\ phase[c] = "listing"
  /\ listed' = [listed EXCEPT ![c] = Some(out)]
  /\ LET w == Targets(out) IN
     IF IsSome(w)
     THEN LET f == [k \in DOMAIN Get(w) |-> StartFetch(Get(Get(w)[k].name))] IN
          /\ fetch' = [fetch EXCEPT ![c] = f]
          /\ IF PromiseAllFulfilled(f)
             THEN Publish(c, <<>>) /\ UNCHANGED results
             ELSE /\ phase' = [phase EXCEPT ![c] = "fetching"]
                  /\ results' = [results EXCEPT ![c] = [k \in DOMAIN f |-> None]]
                  /\ NoPublish
     ELSE Publish(c, <<>>) /\ UNCHANGED <<fetch, results>>
  /\ UNCHANGED <<started, ticks, alive, granted>>

\* The list call of cycle c rejects.
ListFail(c) ==
  /\ alive
  /\ UNCHANGED ui
  /\ phase[c] = "listing"
  /\ Reject(c)
  /\ UNCHANGED <<started, ticks, listed, fetch, results, granted>>

\* limiter.removeTokens calls back without err: the promise of removeToken
\* resolves and its .then callback calls getPipelineDetails(pp.name).
Grant(c, k) ==
  /\ alive
  /\ UNCHANGED ui
  /\ k \in DOMAIN fetch[c]
  /\ fetch[c][k].st = "waiting"
  /\ fetch' = [fetch EXCEPT ![c][k].st = "fetching"]
  /\ granted' = [granted EXCEPT ![c] = @ \cup {k}]
  /\ UNCHANGED <<started, ticks, phase, listed, results, stats, tableData,
                 alive, pubCycle, rowsCycle, publishedBy>>

\* limiter.removeTokens calls back with err: removeToken rejects, and with it
\* Promise.all, unless it has rejected already.
LimiterError(c, k) ==
  /\ alive
  /\ UNCHANGED ui
  /\ k \in DOMAIN fetch[c]
  /\ fetch[c][k].st = "waiting"
  /\ fetch' = [fetch EXCEPT ![c][k].st = "error"]
  /\ IF phase[c] = "fetching"
     THEN Reject(c) /\ results' = [results EXCEPT ![c] = <<>>]
     ELSE UNCHANGED <<phase, results, stats, tableData, alive, pubCycle, rowsCycle, publishedBy>>
  /\ UNCHANGED <<started, ticks, listed, granted>>

\* getPipelineState of fetch k fulfils with s; when it is the last one,
\* Promise.all fulfils and the chain publishes.
DetailOk(c, k, s) ==
  /\ alive
  /\ UNCHANGED ui
  /\ k \in DOMAIN fetch[c]
  /\ fetch[c][k].st = "fetching"
  /\ LET f == [fetch[c] EXCEPT ![k].st = "ok"]
         r == [results[c] EXCEPT ![k] = Some(s)] IN
     /\ fetch' = [fetch EXCEPT ![c] = f]
     /\ IF phase[c] = "fetching"
        THEN IF PromiseAllFulfilled(f)
             THEN /\ Publish(c, [j \in {i \in DOMAIN r : IsSome(r[i])} |-> Get(r[j])])
                  /\ results' = [results EXCEPT ![c] = <<>>]
             ELSE /\ results' = [results EXCEPT ![c] = r]
                  /\ UNCHANGED phase
                  /\ NoPublish
        ELSE UNCHANGED <<phase, results>> /\ NoPublish
  /\ UNCHANGED <<started, ticks, listed, alive, granted>>

\* getPipelineState of fetch k rejects: Promise.all rejects at once, whatever the
\* other fetches do, unless it has rejected already.
DetailFail(c, k) ==
  /\ alive
  /\ UNCHANGED ui
  /\ k \in DOMAIN fetch[c]
  /\ fetch[c][k].st = "fetching"
  /\ fetch' = [fetch EXCEPT ![c][k].st = "failed"]
  /\ IF phase[c] = "fetching"
     THEN Reject(c) /\ results' = [results EXCEPT ![c] = <<>>]
     ELSE UNCHANGED <<phase, results, stats, tableData, alive, pubCycle, rowsCycle, publishedBy>>
  /\ UNCHANGED <<started, ticks, listed, granted>>

\* ------------------------------------------------------ the select handler

\* node.content of a row: the table widget pads each cell to its column width
\* and separates the columns by spaces; a row without cells has no text.
Content(row) ==
  IF Len(row) = 0 THEN <<>>
  ELSE PadEnd(row[1], ColumnWidth) \o <<" ">> \o row[2].text

\* s.split(" ")[0]
FirstWord(s) ==
  LET spaces == {k \in DOMAIN s : s[k] = " "} IN
  IF spaces = {} THEN s
  ELSE SubSeq(s, 1, (CHOOSE k \in spaces : \A j \in spaces : k <= j) - 1)

\* String.prototype.startsWith
StartsWith(s, t) == Len(t) <= Len(s) /\ SubSeq(s, 1, Len(t)) = t

\* stats.find(p => p.pipelineName!.startsWith(token)): the index of the first
\* match, 0 for undefined.
Find(st, token) ==
  LET hits == {k \in DOMAIN st : StartsWith(Get(st[k].pipelineName), token)} IN
  IF hits = {} THEN 0 ELSE CHOOSE k \in hits : \A j \in hits : k <= j

\* The (stage, action) pairs of the two nested _.each loops, in their order;
\* a pipeline without stageStates, or a stage without actionStates, has none.
RECURSIVE ActionPairs(_)
ActionPairs(stages) ==
  IF stages = <<>> THEN <<>>
  ELSE LET stage == stages[Len(stages)]
           actions == IF IsSome(stage.actionStates) THEN Get(stage.actionStates) ELSE <<>> IN
       ActionPairs(SubSeq(stages, 1, Len(stages) - 1))
         \o [j \in DOMAIN actions |-> [stage |-> stage, action |-> actions[j]]]

\* action.revisionUrl ?? action.entityUrl ?? ""
LinkOf(action) ==
  IF IsSome(action.revisionUrl) THEN Get(action.revisionUrl)
  ELSE IF IsSome(action.entityUrl) THEN Get(action.entityUrl) ELSE <<>>

\* The four detailTable.add calls for one action that has a latestExecution.
Block(stage, action) ==
  <<[stage |-> stage.stageName, action |-> action.actionName,
     status |-> Get(action.latestExecution).status],
    [lastRan |-> humanizeTime(Get(action.latestExecution).lastStatusChange)],
    [link |-> LinkOf(action)],
    <<>>>>

\* action.latestExecution!.status raises a TypeError when latestExecution is
\* undefined: the index of the first such pair, 0 when there is none.
FirstThrow(pairs) ==
  LET bad == {k \in DOMAIN pairs : ~IsSome(pairs[k].action.latestExecution)} IN
  IF bad = {} THEN 0 ELSE CHOOSE k \in bad : \A j \in bad : k <= j

\* The items added for the first n pairs.
Blocks(pairs, n) ==
  [m \in 1..(4 * n) |->
     Block(pairs[((m - 1) \div 4) + 1].stage, pairs[((m - 1) \div 4) + 1].action)[((m - 1) % 4) + 1]]

\* What the handler leaves in detailTable for `pipeline`: the blocks of all
\* actions, or of those before the first action that raises.
DetailItems(pipeline) ==
  LET pairs == ActionPairs(IF IsSome(pipeline.stageStates)
                           THEN Get(pipeline.stageStates) ELSE <<>>)
      t == FirstThrow(pairs) IN
  Blocks(pairs, IF t = 0 THEN Len(pairs) ELSE t - 1)

Throws(pipeline) ==
  FirstThrow(ActionPairs(IF IsSome(pipeline.stageStates)
                         THEN Get(pipeline.stageStates) ELSE <<>>)) # 0

\* The "select item" handler for row i: clearItems, table.get("stats", []),
\* find, and the blocks.  An exception leaves the listener uncaught: the items
\* added so far stay, and the process ends.
Select(i) ==
  /\ alive
  /\ i \in DOMAIN tableData
  /\ LET st == IF IsSome(stats) THEN Get(stats) ELSE <<>>
         k == Find(st, FirstWord(Content(tableData[i]))) IN
     /\ lookedUp' = k
     /\ detail' = IF k = 0 THEN <<>> ELSE DetailItems(st[k])
     /\ threw' = IF k = 0 THEN FALSE ELSE Throws(st[k])
     /\ alive' = IF k = 0 THEN TRUE ELSE ~Throws(st[k])
  /\ UNCHANGED <<started, ticks, phase, listed, fetch, results, stats, tableData,
                 granted, pubCycle, rowsCycle, publishedBy>>

\* --------------------------------------------------------- specifications

\* After the module has run: fetchPipelines() was called once (line 110), the
\* timer is armed, the table holds no "stats" and no rows.
Init ==
  /\ started = 1
  /\ ticks = 0
  /\ phase = [c \in Cycles |-> IF c = 1 THEN "listing" ELSE "idle"]
  /\ listed = [c \in Cycles |-> None]
  /\ fetch = [c \in Cycles |-> <<>>]
  /\ results = [c \in Cycles |-> <<>>]
  /\ stats = None
  /\ tableData = <<>>
  /\ alive = TRUE
  /\ granted = [c \in Cycles |-> {}]
  /\ pubCycle = 0
  /\ rowsCycle = 0
  /\ detail = <<>>
  /\ lookedUp = 0
  /\ threw = FALSE
  /\ publishedBy = {}

Next ==
  \/ Tick
  \/ \E c \in Cycles : \E out \in ListResponses : ListOk(c, out)
  \/ \E c \in Cycles : ListFail(c)
  \/ \E c \in Cycles : \E k \in DOMAIN fetch[c] : Grant(c, k)
  \/ \E c \in Cycles : \E k \in DOMAIN fetch[c] : LimiterError(c, k)
  \/ \E c \in Cycles : \E k \in DOMAIN fetch[c] :
       \E s \in DetailResponses(fetch[c][k].name) : DetailOk(c, k, s)
  \/ \E c \in Cycles : \E k \in DOMAIN fetch[c] : DetailFail(c, k)

Spec == Init /\ [][Next]_vars

\* The refresh loop with a responsive environment: while the process runs and
\* a cycle has a listPipelines call, a removeToken or a getPipelineState call
\* pending, one of its pending calls settles at some time, one way or the
\* other.  Nothing is assumed of the timer.
CallSettles(c) ==
  \/ ListFail(c)
  \/ \E k \in DOMAIN fetch[c] : LimiterError(c, k) \/ DetailFail(c, k) \/ Grant(c, k)
  \/ \E out \in ListResponses : ListOk(c, out)
  \/ \E k \in DOMAIN fetch[c] :
       \E s \in DetailResponses(fetch[c][k].name) : DetailOk(c, k, s)

Fairness == \A c \in Cycles : WF_vars(CallSettles(c))

FairSpec == Init /\ [][Next]_vars /\ Fairness

\* The aggregation over every detail response within MaxStages and MaxActions:
\* the startup cycle has listed one watched pipeline and been granted its token;
\* its detail response is any response of the bounded space.
InitAgg ==
  /\ started = 1
  /\ ticks = 0
  /\ phase = [c \in Cycles |-> IF c = 1 THEN "fetching" ELSE "idle"]
  /\ listed = [c \in Cycles |-> IF c = 1 THEN Some(Some(<<Summary(NameUpper)>>)) ELSE None]
  /\ fetch = [c \in Cycles |-> IF c = 1 THEN <<[name |-> NameUpper, st |-> "fetching"]>> ELSE <<>>]
  /\ results = [c \in Cycles |-> IF c = 1 THEN <<None>> ELSE <<>>]
  /\ stats = None
  /\ tableData = <<>>
  /\ alive = TRUE
  /\ granted = [c \in Cycles |-> IF c = 1 THEN {1} ELSE {}]
  /\ pubCycle = 0
  /\ rowsCycle = 0
  /\ detail = <<>>
  /\ lookedUp = 0
  /\ threw = FALSE
  /\ publishedBy = {}

NextAgg ==
  /\ fetch[1][1].st = "fetching"
  /\ \E s \in AllPipelineStates(NameUpper) : DetailOk(1, 1, s)

SpecAgg == InitAgg /\ [][NextAgg]_vars

\* The startup cycle with its viewer: the cycle is run against pipeline names
\* that are prefixes of one another, that share their first 30 characters and
\* that hold a space, and against actions that never ran; once it has published,
\* any row may be selected, any number of times.
NameAB == NameA \o <<"b">>
LongPrefix == NameA \o [k \in 1..(NameWidth - Len(NameA)) |-> "z"]
NameLong1 == LongPrefix \o <<"1">>
NameLong2 == LongPrefix \o <<"2">>
NameSpace1 == Pattern \o <<" ", "x">>
NameSpace2 == Pattern \o <<" ", "y">>

ListResponsesUI ==
  {Some(<<Summary(NameA), Summary(NameB)>>),
   Some(<<Summary(NameAB), Summary(NameA)>>),
   Some(<<Summary(NameLong1), Summary(NameLong2)>>),
   Some(<<Summary(NameSpace1), Summary(NameSpace2)>>)}

Url == <<"u","r","l">>
WithLinks ==
  <<StageState(1, Some([status |-> Succeeded]),
               <<ActionStateWith(1, Some(ActionExecution(Succeeded)), Some(Url), None)>>),
    StageState(2, Some([status |-> Failed]),
               <<ActionStateWith(1, Some(ActionExecution(Failed)), None, Some(Url))>>)>>
NeverRan ==
  <<StageState(1, Some([status |-> InProgress]),
               <<ActionState(1, Some(ActionExecution(Succeeded))), ActionState(2, None)>>),
    StageState(2, None, <<ActionState(1, None)>>)>>
DetailResponsesUI(name) ==
  {PipelineState(name, Some(WithLinks)), PipelineState(name, Some(NeverRan)),
   PipelineState(name, None)}

NextUI ==
  \/ \E c \in Cycles : \E out \in ListResponsesUI : ListOk(c, out)
  \/ \E c \in Cycles : ListFail(c)
  \/ \E c \in Cycles : \E k \in DOMAIN fetch[c] : Grant(c, k)
  \/ \E c \in Cycles : \E k \in DOMAIN fetch[c] : LimiterError(c, k)
  \/ \E c \in Cycles : \E k \in DOMAIN fetch[c] :
       \E s \in DetailResponsesUI(fetch[c][k].name) : DetailOk(c, k, s)
  \/ \E c \in Cycles : \E k \in DOMAIN fetch[c] : DetailFail(c, k)
  \/ \E i \in DOMAIN tableData : Select(i)

SpecUI == Init /\ [][NextUI]_vars

\* ----------------------------------------------------------------- claims

\* The labels, spelled out: chalk.bgRed("Failed    "), chalk.bgGreen("Succeeded ").
FailedLabel == [bg |-> "red", text |-> <<"F","a","i","l","e","d"," "," "," "," ">>]
SucceededLabel ==
  [bg |-> "green", text |-> <<"S","u","c","c","e","e","d","e","d"," ">>]
BlueInProgress ==
  [bg |-> "blue", text |-> <<"I","n","P","r","o","g","r","e","s","s">>]
BlueEmpty ==
  [bg |-> "blue", text |-> <<" "," "," "," "," "," "," "," "," "," ">>]

\* The published detail responses, and the row shown for the k-th of them.
Snapshots == IF IsSome(stats) THEN Get(stats) ELSE <<>>
HasLabel(k, label) ==
  /\ k \in DOMAIN tableData
  /\ Len(tableData[k]) = 2
  /\ tableData[k][2] = label

StagesOf(p) == IF IsSome(p.stageStates) THEN Get(p.stageStates) ELSE <<>>
ActionsOf(stage) == IF IsSome(stage.actionStates) THEN Get(stage.actionStates) ELSE <<>>
\* The status of a stage or an action, "" when it has none.
StatusOf(x) == IF IsSome(x.latestExecution) THEN Get(x.latestExecution).status ELSE <<>>
ActionStatuses(p) ==
  UNION {{StatusOf(ActionsOf(StagesOf(p)[i])[j]) : j \in DOMAIN ActionsOf(StagesOf(p)[i])} :
           i \in DOMAIN StagesOf(p)}
StageStatuses(p) == {StatusOf(StagesOf(p)[i]) : i \in DOMAIN StagesOf(p)}
BlueLabelOf(status) == IF status = InProgress THEN BlueInProgress ELSE BlueEmpty

FetchNames(c) == [k \in DOMAIN fetch[c] |-> fetch[c][k].name]
Settled(c) == \A k \in DOMAIN fetch[c] : fetch[c][k].st \in {"ok", "failed"}
PublishedNames == [k \in DOMAIN Snapshots |-> Get(Snapshots[k].pipelineName)]

\* C2, as stated: a cycle in which one detail fetch failed and the others
\* succeeded is published with exactly the pipelines that succeeded, and the
\* process goes on.
C2_PartialCyclePublished ==
  \A c \in Cycles :
    ( /\ phase[c] \in {"done", "failed"}
      /\ Settled(c)
      /\ \E k \in DOMAIN fetch[c] : fetch[c][k].st = "failed"
      /\ \E k \in DOMAIN fetch[c] : fetch[c][k].st = "ok" )
    => /\ alive
       /\ c \in publishedBy
       /\ pubCycle = c =>
            PublishedNames = SelectSeq(FetchNames(c),
              LAMBDA n : \E k \in DOMAIN fetch[c] :
                           fetch[c][k].name = n /\ fetch[c][k].st = "ok")

\* C3, as stated: at most one fetch cycle is in flight.
C3_AtMostOneCycleInFlight == Cardinality(InFlight) <= 1

\* C4: the snapshot set and the rows on display were written by a cycle all of
\* whose detail fetches had fulfilled; no cycle with a detail fetch (or its token
\* wait) still pending, failed or refused has written them.
C4_PublishedAfterAllSettled ==
  \A c \in publishedBy :
    /\ phase[c] = "done"
    /\ \A k \in DOMAIN fetch[c] : fetch[c][k].st = "ok"

\* The second cycle has published two detail responses while a fetch of the
\* first is still pending.
C4_Witness ==
  /\ pubCycle = 2
  /\ Len(fetch[2]) = 2
  /\ Len(Snapshots) = 2
  /\ \E k \in DOMAIN fetch[1] : fetch[1][k].st \in {"waiting", "fetching"}

\* C5: the step in which a cycle fails (list failure, detail failure, limiter
\* error) leaves table.get("stats") and the rows as they were, and a failed
\* cycle stays failed and never writes them.
C5_FailedCycleWritesNothing ==
  [][\A c \in Cycles :
       /\ (phase[c] # "failed" /\ phase'[c] = "failed")
            => (stats' = stats /\ tableData' = tableData)
       /\ phase[c] = "failed"
            => (phase'[c] = "failed" /\ c \notin publishedBy' /\ pubCycle' # c)]_vars

\* The second cycle has failed and the rows of the first are still on display.
C5_Witness ==
  /\ phase[2] = "failed"
  /\ pubCycle = 1
  /\ Len(Snapshots) = 2
  /\ Len(tableData) = 2

\* C7: a detail call has been issued for a fetch exactly when its own token
\* acquisition has been granted, and a cycle whose list call is still pending
\* has asked the limiter for nothing.
C7_DetailOnlyAfterGrant ==
  \A c \in Cycles :
    /\ \A k \in DOMAIN fetch[c] :
         fetch[c][k].st \in {"fetching", "ok", "failed"} <=> k \in granted[c]
    /\ granted[c] \subseteq DOMAIN fetch[c]
    /\ phase[c] \in {"idle", "listing"} => (fetch[c] = <<>> /\ granted[c] = {})

\* One detail call issued after its grant while the other still waits for its token.
C7_Witness ==
  \E c \in Cycles :
    /\ Len(fetch[c]) = 2
    /\ fetch[c][1].st = "waiting"
    /\ fetch[c][2].st = "fetching"
    /\ granted[c] = {2}

\* The names of a list response that start with "integration" in any case.
StartsWithIntegration(n) ==
  LET lo == <<"i","n","t","e","g","r","a","t","i","o","n">>
      up == <<"I","N","T","E","G","R","A","T","I","O","N">> IN
  /\ Len(n) >= 11
  /\ \A i \in 1..11 : n[i] = lo[i] \/ n[i] = up[i]
ListedNames(c) ==
  IF IsSome(listed[c]) /\ IsSome(Get(listed[c]))
  THEN LET pl == SelectSeq(Get(Get(listed[c])), LAMBDA pp : IsSome(pp.name))
       IN [k \in DOMAIN pl |-> Get(pl[k].name)]
  ELSE <<>>

\* C8: the pipelines a cycle asks a token and a detail for are exactly the
\* listed ones whose name starts with "integration" in any case, in list order;
\* from integration-a, Integration-B, other-c they are integration-a and
\* Integration-B.
C8_WatchedSetExact ==
  \A c \in Cycles :
    /\ FetchNames(c) = SelectSeq(ListedNames(c), StartsWithIntegration)
    /\ listed[c] = Some(Some(ExampleList)) => FetchNames(c) = <<NameA, NameB>>

\* The example list has been received and both watched pipelines fetched.
C8_Witness ==
  \E c \in Cycles :
    /\ listed[c] = Some(Some(ExampleList))
    /\ FetchNames(c) = <<NameA, NameB>>
    /\ granted[c] = {1, 2}

\* ------------------------------------------------- claims on the detail view

\* The (stage name, action name) pairs of a pipeline's actions, in stage order
\* and within each stage in action order.
ActionNames(p) ==
  LET pairs == ActionPairs(StagesOf(p)) IN
  [k \in DOMAIN pairs |-> <<pairs[k].stage.stageName, pairs[k].action.actionName>>]

\* The (stage name, action name) pairs the blocks of an item list are about:
\* a block is four items, the first of which names its stage and action.
BlockNames(items) ==
  [k \in 1..(Len(items) \div 4) |->
     <<items[4 * (k - 1) + 1].stage, items[4 * (k - 1) + 1].action>>]

\* C11: after a select of row i the detail view holds exactly one block per action
\* of the snapshot of row i, in stage and action order, and nothing else.
C11_SelectShowsEveryAction ==
  [][\A i \in DOMAIN tableData :
       Select(i) =>
         /\ i \in DOMAIN Snapshots
         /\ Len(detail') = 4 * Len(ActionNames(Snapshots[i]))
         /\ BlockNames(detail') = ActionNames(Snapshots[i])]_vars

\* ---------------------------------------------- claims on the published state

\* C12: in every state (a select event is handled between two steps) the rows of
\* the table and the stored set were written by the same cycle, and the rows are
\* the rows of the stored snapshots, one per snapshot, in the same order.
C12_RowsAndStateSameCycle ==
  /\ rowsCycle = pubCycle
  /\ Len(tableData) = Len(Snapshots)
  /\ \A k \in DOMAIN tableData : tableData[k] = Row(MappedStats(Snapshots[k]))

\* A second cycle has replaced the non-empty set and rows of the first.
C12_Witness ==
  /\ publishedBy = {1, 2}
  /\ pubCycle = 2
  /\ rowsCycle = 2
  /\ Len(Snapshots) = 2
  /\ Len(tableData) = 2
  /\ HasLabel(2, FailedLabel)

\* The lookup of the select handler, for a pipeline name as the table displays it.
Lookup(st, name) == Find(st, Slice0(name, NameWidth))

\* C13: right after a cycle has published its set, the lookup of every pipeline
\* name of the new set finds that pipeline's snapshot of the new set.
C13_LookupFindsNewSnapshot ==
  [][pubCycle' # pubCycle =>
       LET new == Get(stats') IN
       \A k \in DOMAIN new : Lookup(new, Get(new[k].pipelineName)) = k]_vars

\* ------------------------------------------------ claims on the refresh loop

\* C14: a failed cycle leaves the process running and the timer armed: whenever
\* a cycle has failed, the process is alive, and a tick can start the next cycle
\* as long as cycles remain within the bound.
C14_FailureLeavesTimerRunning ==
  \A c \in Cycles :
    phase[c] = "failed" => (alive /\ (started < MaxCycles => ENABLED Tick))

\* A call of cycle c has failed: its list call, a token request or a detail fetch.
SomeCallFailed(c) ==
  \/ phase[c] = "failed"
  \/ \E k \in DOMAIN fetch[c] : fetch[c][k].st \in {"failed", "error"}

\* C15: the startup cycle is in flight before any tick; and, as long as the
\* process is there for its calls to settle in, every cycle in flight comes to an
\* end, published or failed, and comes to be published unless one of its calls
\* has failed.
C15_EveryCycleEnds ==
  /\ started = 1 /\ ticks = 0 /\ phase[1] = "listing"
  /\ \A c \in Cycles :
       /\ (c \in InFlight) ~> (phase[c] \in {"done", "failed"} \/ ~alive)
       /\ (c \in InFlight) ~> (c \in publishedBy \/ SomeCallFailed(c) \/ ~alive)

\* The cycle started by a tick has fetched its pipelines and published them.
C15_Witness ==
  /\ ticks = 1
  /\ phase[2] = "done"
  /\ 2 \in publishedBy
  /\ Len(fetch[2]) = 2
  /\ alive

\* C16: the cycle whose results are stored and shown never goes back to a cycle
\* started earlier.
C16_PublicationMonotonic ==
  [][pubCycle' >= pubCycle /\ rowsCycle' >= rowsCycle]_vars

\* ------------------------------------------------- claims on the selection

\* C17: the select of row i resolves to the snapshot the row was built from,
\* the i-th of the stored set.
C17_SelectResolvesOwnPipeline ==
  [][\A i \in DOMAIN tableData : Select(i) => lookedUp' = i]_vars

\* C18: no select handler has raised an exception.
C18_SelectNeverRaises == ~threw

\* ---------------------------------------------------- claims on the rows

\* The label cell of a row: a background colour and a text of the padded width.
IsLabel(cell) ==
  /\ cell.bg \in {"red", "green", "blue"}
  /\ Len(cell.text) >= PadWidth

\* The cells of the row of pipeline p: its name cut to NameWidth characters (a
\* prefix of the stored name, the whole name when that is short enough) and a label.
IsNameAndLabel(row, p) ==
  /\ Len(row) = 2
  /\ Len(row[1]) <= NameWidth
  /\ StartsWith(Get(p.pipelineName), row[1])
  /\ Len(Get(p.pipelineName)) <= NameWidth => row[1] = Get(p.pipelineName)
  /\ IsLabel(row[2])

====
